---- MODULE Spec2Model ----
(***************************************************************************)
(* Model of the exec cog of dogbot (src/dog/core/ext/exec.py): the Exec    *)
(* cog's session state (last_result, previous_code), the eval and retry    *)
(* commands, and Exec.execute, run as coroutines under a cooperative       *)
(* scheduler.  One action is one run of a coroutine from a resume to its   *)
(* next await.                                                             *)
(***************************************************************************)
EXTENDS Integers, Sequences, FiniteSets, TLC

\* ------------------------------------------------------------------ bounds
\* number of command invocations (eval or retry) in one behaviour
MaxInv == 2
\* number of chunks one executed unit may write to standard output
MaxWrites == 1
\* number of invocations in flight (started, not ended) at the same time
MaxConcurrent == 2
\* length, in fragments, of the raw text handed to the converter
MaxLen == 3

Inv == 1..MaxInv

\* ------------------------------------------------------------ code texts
\* Python's None
None == "None"

\* The code texts handed to eval.  Each stands for one source text:
\*   "bad"     async def func():\n    return x =          (does not compile)
\*   "wrapped" async def func():\n    return 1 + 1        (wrapper of line 90)
\*   "direct"  async def _func(): ...                     (defines _func itself)
Units == {"bad", "wrapped", "direct"}

\* name under which the wrapper header of Code.convert defines the coroutine
WrapperName == "func"

\* name Exec.execute looks up in the environment after compiling
LookupName == "_func"

\* compile(code, '<exec>', 'exec') raises SyntaxError or not
Compiles(c) == c # "bad"

\* the names exec(compile(code), env) adds to env
Defines(c) ==
    CASE c = "wrapped" -> {WrapperName}
      [] c = "direct" -> {"_func"}
      [] OTHER -> {}

\* globals() of exec.py: the names the module imports and defines, each with
\* the object it is bound to
ModuleGlobals ==
    [n \in {"io", "logging", "textwrap", "traceback", "redirect_stdout",
            "List", "TypeVar", "Callable", "Dict", "Any", "aiohttp",
            "Message", "HTTPException", "Converter", "Cog", "is_bot_admin",
            "DogbotContext", "codeblock", "haste", "log",
            "IMPLICIT_RETURN_STOP_WORDS", "Code", "format_syntax_error",
            "create_environment", "Exec", "setup", "__name__"} |-> "global " \o n]
    @@ ("discord" :> "module discord")
    @@ ("commands" :> "module discord.ext.commands")
    @@ ("command" :> "discord.ext.commands.command")

\* the names merged into env by env.update(globals()); there is no global
\* named func or _func
GlobalNames == DOMAIN ModuleGlobals

\* Python truthiness of previous_code (None and '' are falsy)
Falsy(c) == c = None \/ c = ""

\* ---------------------------------------------------------------- values
\* values an executed unit may return; ReprLen is len(repr(value))
Values == {None, "2", "big"}

ReprLen(v) ==
    CASE v = None -> 4
      [] v = "2" -> 1
      [] v = "big" -> 1990

\* every chunk written to standard output is one character
ChunkLen == 1

\* meat = stream + repr(ret)
Meat(stream, ret) == [stream |-> stream, ret |-> ret]

MeatLen(m) == Len(m.stream) * ChunkLen + ReprLen(m.ret)

\* codeblock(meat, lang='py') = '```py\n' + meat + '\n```'
CodeblockOverhead == 10

codeblock(m) == [type |-> "block", body |-> m]

MessageLen(msg) == CodeblockOverhead + MeatLen(msg.body)

\* the ceiling of line 226
Ceiling == 2000

TooLong_geq(msg) == MessageLen(msg) >= Ceiling

\* if len(message) > 2000
TooLong(msg) == MessageLen(msg) > Ceiling

UpdateLastResult_always(r, lr) == r

\* if ret is not None: self.last_result = ret
UpdateLastResult(r, lr) == IF r # None THEN r ELSE lr

SyntaxErrorCaught_never(c) == FALSE

\* try: exec(compile(code, '<exec>', 'exec'), env) / except SyntaxError
SyntaxErrorCaught(c) == ~Compiles(c)

ExceptException_never(e) == FALSE

\* except Exception: around ret = await func()
ExceptException(e) == e[1] = "raise"

HasPreviousCode_always(prev) == TRUE

\* the guard of Exec.retry: falls through to execute when previous_code is truthy
HasPreviousCode(prev) == ~Falsy(prev)

\* outcomes of the paste collaborator haste(session, meat)
HasteResults == {"link", "KeyError", "ClientError"}

PasteNotice_swapped(r) ==
    CASE r = "link" -> [type |-> "cmd.eval.long", url |-> "url"]
      [] r = "KeyError" -> [type |-> "cmd.eval.pastebin_down"]
      [] r = "ClientError" -> [type |-> "cmd.eval.huge"]

\* the try/except around haste: which message is sent for which result
PasteNotice(r) ==
    CASE r = "link" -> [type |-> "cmd.eval.long", url |-> "url"]
      [] r = "KeyError" -> [type |-> "cmd.eval.huge"]
      [] r = "ClientError" -> [type |-> "cmd.eval.pastebin_down"]

ReactionEscapes_onFail(ok) == ~ok

\* try: await ctx.message.add_reaction(...) / except HTTPException: pass
\* whether a failed add_reaction leaves execute
ReactionEscapes(ok) == FALSE

Send_drop(q, m) == q

\* await ctx.send(m): one more message goes out
Send(q, m) == Append(q, m)

\* the messages the other paths send
SyntaxBlock == [type |-> "syntax"]
TraceBlock == [type |-> "trace"]
NoPreviousCode == [type |-> "No previous code."]

CACTUS_asHibiscus == "HIBISCUS"

CACTUS == "CACTUS"
HIBISCUS == "HIBISCUS"

\* ------------------------------------------------------------ Code.convert
\* A text is a sequence of fragments: a backtick, a space, a newline, or a
\* word without any of these.
Backtick == "BACKTICK"

Fragments == {Backtick, " ", "\n", "x", "pass"}

RECURSIVE TextsOfLen(_)
TextsOfLen(n) ==
    IF n = 0 THEN {<<>>}
    ELSE {Append(t, f) : t \in TextsOfLen(n - 1), f \in Fragments}

\* the raw arguments given to the converter
Texts == UNION {TextsOfLen(n) : n \in 0..MaxLen}

IMPLICIT_RETURN_STOP_WORDS ==
    {"continue", "break", "raise", "yield", "with", "assert", "del", "import",
     "pass", "return", "from"}

\* the characters result.strip removes: backtick, space, newline
StripSet == {Backtick, " ", "\n"}

RECURSIVE LStrip(_)
LStrip(t) ==
    IF t # <<>> /\ t[1] \in StripSet THEN LStrip(Tail(t)) ELSE t

RECURSIVE RStrip(_)
RStrip(t) ==
    IF t # <<>> /\ t[Len(t)] \in StripSet THEN RStrip(SubSeq(t, 1, Len(t) - 1)) ELSE t

\* result.strip of the backticks, spaces and newlines
Strip(t) == RStrip(LStrip(t))

\* index of the first newline of t, 0 when there is none
RECURSIVE FirstNewline(_, _)
FirstNewline(t, k) ==
    IF k > Len(t) THEN 0 ELSE IF t[k] = "\n" THEN k ELSE FirstNewline(t, k + 1)

\* result.splitlines()
RECURSIVE SplitLines(_)
SplitLines(t) ==
    IF t = <<>> THEN <<>>
    ELSE LET k == FirstNewline(t, 1)
         IN  IF k = 0 THEN <<t>>
             ELSE <<SubSeq(t, 1, k - 1)>> \o SplitLines(SubSeq(t, k + 1, Len(t)))

\* last_line.split(' ')[0], as one string
RECURSIVE FirstWord(_)
FirstWord(line) ==
    IF line = <<>> \/ line[1] = " " THEN "" ELSE line[1] \o FirstWord(Tail(line))

\* ' ' * indent_width
RECURSIVE Spaces(_)
Spaces(n) == IF n = 0 THEN <<>> ELSE <<" ">> \o Spaces(n - 1)

\* sep.join(lines)
RECURSIVE Join(_, _)
Join(lines, sep) ==
    IF lines = <<>> THEN <<>>
    ELSE IF Len(lines) = 1 THEN lines[1]
    ELSE lines[1] \o sep \o Join(Tail(lines), sep)

\* the header line of the wrapper
Header == <<"async def ", WrapperName, "():", "\n">>

\* lines 76-90 of Code.convert, for given values of wrap's three names
WrapCode(result, implicit_return, indent_width) ==
    LET lines == SplitLines(result)
        n == Len(lines)
    IN  IF implicit_return /\ n = 0
          THEN [raised |-> "IndexError", result |-> <<>>]
          ELSE LET last == lines[n]
                   lines1 ==
                       IF /\ implicit_return
                          /\ ~(last # <<>> /\ last[1] = " ")
                          /\ FirstWord(last) \notin IMPLICIT_RETURN_STOP_WORDS
                         THEN [lines EXCEPT ![n] = <<"return", " ">> \o last]
                         ELSE lines
                   indentStr == Spaces(indent_width)
               IN  [raised |-> "none",
                    result |-> Header \o indentStr
                               \o Join(lines1, <<"\n">> \o indentStr)]

\* the names convert can read unqualified: its parameters and locals, and
\* the module globals; wrap_code, implicit_return and indent_width are
\* attributes of self and parameters of __init__, not names of convert
ConvertNames == {"self", "ctx", "arg", "result", "last_line", "first_word", "indentStr"}

\* Code.convert
convert(slf, a) ==
    LET result == IF slf.strip_ticks THEN Strip(a) ELSE a
    IN  IF "wrap_code" \notin ConvertNames \cup GlobalNames
          THEN \* if wrap_code: raises NameError
               [raised |-> "NameError", result |-> <<>>]
          ELSE IF slf.wrap_code
          THEN WrapCode(result, slf.implicit_return, slf.indent_width)
          ELSE [raised |-> "none", result |-> result]

\* the converters: Code(wrap_code=..., implicit_return=...) with the defaults
\* strip_ticks=True, indent_width=4
Converters ==
    [wrap_code : BOOLEAN, implicit_return : BOOLEAN, strip_ticks : {TRUE},
     indent_width : {4}]

\* converted before convert has been called
NotConverted == [raised |-> "uncalled", result |-> <<>>]

\* sys.stdout before any redirect_stdout: the process's real standard output
RealStdout == 0

\* old_target of an invocation that has not entered redirect_stdout
NoTarget == -1

\* ----------------------------------------------------------------- state
VARIABLES
    last_result,    \* Exec.last_result
    previous_code,  \* Exec.previous_code
    sys_stdout,     \* sys.stdout: RealStdout or the invocation whose StringIO it is
    buf,            \* contents of each invocation's StringIO: seq of writers
    pc,             \* where each invocation's coroutine is suspended
    kind,           \* "eval" or "retry"
    code,           \* the code argument of execute
    env,            \* the '_' and '_p' entries of the environment
    old_target,     \* sys.stdout saved by redirect_stdout.__enter__
    wrote,          \* number of chunks the invocation's unit has written
    ret,            \* ret
    stream,         \* stream = stdout.getvalue()
    unitEnd,        \* how the executed unit ended: "returned" or "raised"
    outcome,        \* SyntaxFailure / RuntimeFailure / Success
    raised,         \* exception that left the invocation
    marker,         \* reactions the invocation asked for
    attached,       \* reactions that were attached to the message
    sent,           \* messages passed to ctx.send
    hasteCalls,     \* contents passed to haste
    hasteResult,    \* what the call of haste gave
    stages,         \* stages of execute the invocation has entered
    seen,           \* what the unit read in its latest run: '_', '_p' and,
                    \* through cog, last_result and previous_code
    arg,            \* the raw text given to Code.convert
    self,           \* the Code converter
    converted       \* what Code.convert gave

vars == <<last_result, previous_code, sys_stdout, buf, pc, kind, code, env,
          old_target, wrote, ret, stream, unitEnd, outcome, raised, marker,
          attached, sent, hasteCalls, hasteResult, stages, seen,
          arg, self, converted>>

convVars == <<arg, self, converted>>

\* the invocations that have started and not ended
InFlight == {j \in Inv : pc[j] \notin {"idle", "done"}}

StorePreviousCode_unlessBusy(c, prev) == IF InFlight = {} THEN c ELSE prev

StorePreviousCode_keepFirst(c, prev) == IF prev = None THEN c ELSE prev

StorePreviousCode_ifCompiles(c, prev) == IF Compiles(c) THEN c ELSE prev

\* self.previous_code = code   (Exec._eval)
StorePreviousCode(c, prev) == c

\* env of an invocation that has not called create_environment
NoEnv == [n \in {"_", "_p"} |-> "unbuilt"]

\* seen of an invocation whose unit has not run
NoSeen == [us |-> "unread", p |-> "unread", lr |-> "unread", pcode |-> "unread"]

\* Exec.__init__ and the process before any command
InitExec ==
    /\ last_result = None
    /\ previous_code = None
    /\ sys_stdout = RealStdout
    /\ buf = [i \in Inv |-> <<>>]
    /\ pc = [i \in Inv |-> "idle"]
    /\ kind = [i \in Inv |-> "none"]
    /\ code = [i \in Inv |-> None]
    /\ env = [i \in Inv |-> NoEnv]
    /\ old_target = [i \in Inv |-> NoTarget]
    /\ wrote = [i \in Inv |-> 0]
    /\ ret = [i \in Inv |-> "unset"]
    /\ stream = [i \in Inv |-> <<>>]
    /\ unitEnd = [i \in Inv |-> "none"]
    /\ outcome = [i \in Inv |-> "none"]
    /\ raised = [i \in Inv |-> "none"]
    /\ marker = [i \in Inv |-> <<>>]
    /\ attached = [i \in Inv |-> <<>>]
    /\ sent = [i \in Inv |-> <<>>]
    /\ hasteCalls = [i \in Inv |-> <<>>]
    /\ hasteResult = [i \in Inv |-> "none"]
    /\ stages = [i \in Inv |-> {}]
    /\ seen = [i \in Inv |-> NoSeen]

\* the cog before any command; the converter of the eval command, not called
Init ==
    /\ InitExec
    /\ arg = <<>>
    /\ self = [wrap_code |-> TRUE, implicit_return |-> TRUE,
               strip_ticks |-> TRUE, indent_width |-> 4]
    /\ converted = NotConverted

EnvLiteral_pIsLastResult(lr, prev) ==
    [n \in {"bot", "ctx", "msg", "guild", "channel", "me", "cog", "_get",
            "_find", "_upload", "_send", "_g", "_u", "_c", "dir"} |-> "local " \o n]
    @@ ("discord" :> "module discord")
    @@ ("commands" :> "module discord.ext.commands")
    @@ ("command" :> "discord.ext.commands.command")
    @@ ("group" :> "discord.ext.commands.group")
    @@ ("_" :> lr)
    @@ ("_p" :> lr)

EnvLiteral_commandTypo(lr, prev) ==
    [n \in {"bot", "ctx", "msg", "guild", "channel", "me", "cog", "_get",
            "_find", "_upload", "_send", "_g", "_u", "_c", "dir"} |-> "local " \o n]
    @@ ("discord" :> "module discord")
    @@ ("commands" :> "module discord.ext.commands")
    @@ ("command" :> "discord.ext.commands.group")
    @@ ("group" :> "discord.ext.commands.group")
    @@ ("_" :> lr)
    @@ ("_p" :> prev)

\* env = {...}: the bindings create_environment builds for the invocation;
\* '_' is cog.last_result and '_p' is cog.previous_code
EnvLiteral(lr, prev) ==
    [n \in {"bot", "ctx", "msg", "guild", "channel", "me", "cog", "_get",
            "_find", "_upload", "_send", "_g", "_u", "_c", "dir"} |-> "local " \o n]
    @@ ("discord" :> "module discord")
    @@ ("commands" :> "module discord.ext.commands")
    @@ ("command" :> "discord.ext.commands.command")
    @@ ("group" :> "discord.ext.commands.group")
    @@ ("_" :> lr)
    @@ ("_p" :> prev)

\* create_environment: env = {...}; env.update(globals()); return env.
\* dict.update gives a name that is in both the value from globals()
create_environment(lr, prev) ==
    [n \in DOMAIN EnvLiteral(lr, prev) \cup GlobalNames |->
        IF n \in GlobalNames THEN ModuleGlobals[n] ELSE EnvLiteral(lr, prev)[n]]

ReadBinding_live(i, n) ==
    IF n = "_" THEN last_result' ELSE IF n = "_p" THEN previous_code' ELSE env'[i][n]

\* the unit reads the global name n: its globals are the env dict that
\* exec(compile(code, '<exec>', 'exec'), env) was given
ReadBinding(i, n) == env'[i][n]

\* how one run of the unit between two suspensions ends
Ends == {<<"suspend", None>>, <<"raise", None>>} \cup {<<"return", v>> : v \in Values}

\* One run of the executed unit, from a resume to its next suspension or its
\* end, and what execute does after it up to the next await.
\*   cur  sys.stdout while the unit runs
\*   old  the target redirect_stdout.__exit__ restores
\*   w    number of chunks the unit writes in this run
\*   e    how the run ends
UnitRun(i, cur, old, w, e) ==
    LET buf1 == IF w = 0 \/ cur = RealStdout THEN buf
                ELSE [buf EXCEPT ![cur] = Append(@, i)]
    IN  /\ w \in 0..(MaxWrites - wrote[i])
        /\ w <= 1
        /\ buf' = buf1
        /\ wrote' = [wrote EXCEPT ![i] = @ + w]
        /\ seen' = [seen EXCEPT ![i] = [us |-> ReadBinding(i, "_"),
                                        p |-> ReadBinding(i, "_p"),
                                        lr |-> last_result',
                                        pcode |-> previous_code']]
        /\ IF e[1] = "suspend"
             THEN \* the unit awaits: the redirection stays in force
                  /\ sys_stdout' = cur
                  /\ pc' = [pc EXCEPT ![i] = "unit"]
                  /\ UNCHANGED <<ret, stream, unitEnd, outcome, marker>>
                  /\ stages' = [stages EXCEPT ![i] = @ \cup {"compile", "locate", "execute"}]
             ELSE IF ExceptException(e)
             THEN \* except Exception: await ctx.message.add_reaction(CACTUS)
                  /\ sys_stdout' = old
                  /\ unitEnd' = [unitEnd EXCEPT ![i] = "raised"]
                  /\ outcome' = [outcome EXCEPT ![i] = "RuntimeFailure"]
                  /\ marker' = [marker EXCEPT ![i] = Append(@, CACTUS)]
                  /\ pc' = [pc EXCEPT ![i] = "react_fail"]
                  /\ stages' = [stages EXCEPT ![i] = @ \cup {"compile", "locate", "execute"}]
                  /\ UNCHANGED <<ret, stream>>
             ELSE \* stream = stdout.getvalue(); await add_reaction(HIBISCUS)
                  /\ sys_stdout' = old
                  /\ unitEnd' = [unitEnd EXCEPT ![i] =
                                   IF e[1] = "raise" THEN "raised" ELSE "returned"]
                  /\ ret' = [ret EXCEPT ![i] = e[2]]
                  /\ stream' = [stream EXCEPT ![i] = buf1[i]]
                  /\ outcome' = [outcome EXCEPT ![i] = "Success"]
                  /\ marker' = [marker EXCEPT ![i] = Append(@, HIBISCUS)]
                  /\ pc' = [pc EXCEPT ![i] = "react_ok"]
                  /\ stages' = [stages EXCEPT ![i] =
                                  @ \cup {"compile", "locate", "execute", "capture"}]

\* Exec.execute from its first line to its first await
ExecuteBegin(i, c, w, e) ==
    /\ code' = [code EXCEPT ![i] = c]
    /\ env' = [env EXCEPT ![i] = create_environment(last_result, previous_code')]
    /\ UNCHANGED <<last_result, attached, hasteCalls, hasteResult>>
    /\ IF SyntaxErrorCaught(c)
         THEN \* except SyntaxError: return await ctx.send(format_syntax_error(e))
              /\ outcome' = [outcome EXCEPT ![i] = "SyntaxFailure"]
              /\ sent' = [sent EXCEPT ![i] = Send(@, SyntaxBlock)]
              /\ pc' = [pc EXCEPT ![i] = "done"]
              /\ stages' = [stages EXCEPT ![i] = @ \cup {"compile"}]
              /\ UNCHANGED <<sys_stdout, buf, old_target, wrote, ret, stream,
                             unitEnd, raised, marker, seen>>
         ELSE IF LookupName \notin (Defines(c) \cup GlobalNames)
         THEN \* func = env['_func'] raises KeyError, which leaves execute
              /\ raised' = [raised EXCEPT ![i] = "KeyError"]
              /\ pc' = [pc EXCEPT ![i] = "done"]
              /\ stages' = [stages EXCEPT ![i] = @ \cup {"compile", "locate"}]
              /\ UNCHANGED <<sys_stdout, buf, old_target, wrote, ret, stream,
                             unitEnd, outcome, marker, sent, seen>>
         ELSE \* with redirect_stdout(stdout): ret = await func()
              /\ old_target' = [old_target EXCEPT ![i] = sys_stdout]
              /\ UnitRun(i, i, sys_stdout, w, e)
              /\ UNCHANGED <<raised, sent>>

\* an invocation slot is taken in order
CanStart(i) ==
    /\ pc[i] = "idle"
    /\ \A j \in Inv : j < i => pc[j] # "idle"
    /\ Cardinality(InFlight) < MaxConcurrent

\* Exec._eval
Eval(i, c, w, e) ==
    /\ CanStart(i)
    /\ kind' = [kind EXCEPT ![i] = "eval"]
    /\ previous_code' = StorePreviousCode(c, previous_code)
    /\ ExecuteBegin(i, c, w, e)
    /\ UNCHANGED convVars

\* Exec.retry
Retry(i, w, e) ==
    /\ CanStart(i)
    /\ kind' = [kind EXCEPT ![i] = "retry"]
    /\ UNCHANGED previous_code
    /\ UNCHANGED convVars
    /\ IF HasPreviousCode(previous_code)
         THEN ExecuteBegin(i, previous_code, w, e)
         ELSE /\ sent' = [sent EXCEPT ![i] = Send(@, NoPreviousCode)]
              /\ pc' = [pc EXCEPT ![i] = "done"]
              /\ UNCHANGED <<last_result, sys_stdout, buf, code, env,
                             old_target, wrote, ret, stream, unitEnd, outcome,
                             raised, marker, attached, hasteCalls, hasteResult,
                             stages, seen>>

\* the unit resumes inside ret = await func()
UnitResume(i, w, e) ==
    /\ pc[i] = "unit"
    /\ UNCHANGED <<last_result, previous_code, kind, code, env, old_target,
                   raised, attached, sent, hasteCalls, hasteResult>>
    /\ UNCHANGED convVars
    /\ UnitRun(i, sys_stdout, old_target[i], w, e)

\* add_reaction(CACTUS) returned or raised HTTPException (swallowed);
\* then return await ctx.send(codeblock(traceback.format_exc(limit=7)))
ReactFailResume(i, ok) ==
    /\ pc[i] = "react_fail"
    /\ UNCHANGED convVars
    /\ attached' = [attached EXCEPT ![i] = IF ok THEN Append(@, CACTUS) ELSE @]
    /\ IF ReactionEscapes(ok)
         THEN /\ raised' = [raised EXCEPT ![i] = "HTTPException"]
              /\ UNCHANGED sent
         ELSE /\ sent' = [sent EXCEPT ![i] = Send(@, TraceBlock)]
              /\ UNCHANGED raised
    /\ pc' = [pc EXCEPT ![i] = "done"]
    /\ UNCHANGED <<last_result, previous_code, sys_stdout, buf, kind, code,
                   env, old_target, wrote, ret, stream, unitEnd, outcome,
                   marker, hasteCalls, hasteResult, stages, seen>>

\* add_reaction(HIBISCUS) returned or raised HTTPException (swallowed);
\* then the update of last_result and the size branch
ReactOkResume(i, ok) ==
    LET message == codeblock(Meat(stream[i], ret[i]))
    IN  /\ pc[i] = "react_ok"
        /\ UNCHANGED convVars
        /\ attached' = [attached EXCEPT ![i] = IF ok THEN Append(@, HIBISCUS) ELSE @]
        /\ IF ReactionEscapes(ok)
             THEN /\ raised' = [raised EXCEPT ![i] = "HTTPException"]
                  /\ pc' = [pc EXCEPT ![i] = "done"]
                  /\ UNCHANGED <<last_result, stages, hasteCalls, sent>>
             ELSE /\ last_result' = UpdateLastResult(ret[i], last_result)
                  /\ stages' = [stages EXCEPT ![i] = @ \cup {"update", "present"}]
                  /\ UNCHANGED raised
                  /\ IF TooLong(message)
                       THEN /\ hasteCalls' = [hasteCalls EXCEPT ![i] =
                                                Append(@, message.body)]
                            /\ pc' = [pc EXCEPT ![i] = "haste"]
                            /\ UNCHANGED sent
                       ELSE /\ sent' = [sent EXCEPT ![i] = Send(@, message)]
                            /\ pc' = [pc EXCEPT ![i] = "done"]
                            /\ UNCHANGED hasteCalls
        /\ UNCHANGED <<previous_code, sys_stdout, buf, kind, code, env,
                       old_target, wrote, ret, stream, unitEnd, outcome,
                       marker, hasteResult, seen>>

\* haste returned a link, raised KeyError or raised aiohttp.ClientError
HasteResume(i, r) ==
    /\ pc[i] = "haste"
    /\ UNCHANGED convVars
    /\ hasteResult' = [hasteResult EXCEPT ![i] = r]
    /\ sent' = [sent EXCEPT ![i] = Send(@, PasteNotice(r))]
    /\ pc' = [pc EXCEPT ![i] = "done"]
    /\ UNCHANGED <<last_result, previous_code, sys_stdout, buf, kind, code,
                   env, old_target, wrote, ret, stream, unitEnd, outcome,
                   raised, marker, attached, hasteCalls, stages, seen>>

Next ==
    \E i \in Inv :
        \/ \E c \in Units, w \in 0..1, e \in Ends : Eval(i, c, w, e)
        \/ \E w \in 0..1, e \in Ends : Retry(i, w, e)
        \/ \E w \in 0..1, e \in Ends : UnitResume(i, w, e)
        \/ \E ok \in BOOLEAN : ReactFailResume(i, ok)
        \/ \E ok \in BOOLEAN : ReactOkResume(i, ok)
        \/ \E r \in HasteResults : HasteResume(i, r)

Spec == Init /\ [][Next]_vars

\* no invocation is in flight
Quiescent == InFlight = {}

\* commands issued one after the other: a command starts only when the
\* previous one has ended
NextSeq ==
    \E i \in Inv :
        \/ Quiescent /\ \E c \in Units, w \in 0..1, e \in Ends : Eval(i, c, w, e)
        \/ Quiescent /\ \E w \in 0..1, e \in Ends : Retry(i, w, e)
        \/ \E w \in 0..1, e \in Ends : UnitResume(i, w, e)
        \/ \E ok \in BOOLEAN : ReactFailResume(i, ok)
        \/ \E ok \in BOOLEAN : ReactOkResume(i, ok)
        \/ \E r \in HasteResults : HasteResume(i, r)

SpecSeq == Init /\ [][NextSeq]_vars

\* the command framework calls the converter on the raw argument
ConvertCall ==
    /\ converted = NotConverted
    /\ converted' = convert(self, arg)
    /\ UNCHANGED <<last_result, previous_code, sys_stdout, buf, pc, kind, code,
                   env, old_target, wrote, ret, stream, unitEnd, outcome,
                   raised, marker, attached, sent, hasteCalls, hasteResult,
                   stages, seen, arg, self>>

\* any raw text, any converter
InitConvert ==
    /\ InitExec
    /\ arg \in Texts
    /\ self \in Converters
    /\ converted = NotConverted

NextConvert == ConvertCall

SpecConvert == InitConvert /\ [][NextConvert]_vars

TypeOK ==
    /\ last_result \in Values
    /\ previous_code \in Units \cup {None}
    /\ sys_stdout \in Inv \cup {RealStdout}
    /\ \A i \in Inv : pc[i] \in {"idle", "unit", "react_fail", "react_ok",
                                 "haste", "done"}

\* ------------------------------------------------------------------ claims
Started(i) == pc[i] # "idle"

Done(i) == pc[i] = "done"

\* the invocations that ended in a success with a non-null value
Producers == {i \in Inv : Done(i) /\ outcome[i] = "Success" /\ ret[i] # None}

MaxOf(S) == CHOOSE x \in S : \A y \in S : y <= x

\* C1: when commands are issued one after the other, last_result is the value
\* returned by the most recent invocation that succeeded with a non-null
\* value, and the initial None when there is none; null successes, runtime
\* failures and syntax failures in between leave it alone.
C1_LastResultIsLastNonNull ==
    Quiescent =>
        last_result = IF Producers = {} THEN None ELSE ret[MaxOf(Producers)]

C1_Witness ==
    /\ Quiescent
    /\ \E i, j \in Inv :
          /\ i < j
          /\ Done(i) /\ outcome[i] = "Success" /\ ret[i] = "big"
          /\ Done(j) /\ outcome[j] = "Success" /\ ret[j] = None
          /\ last_result = "big"

\* C2: previous_code is set to the submitted text by the first step of every
\* eval, whatever the outcome; the first step of a retry and every later step
\* of any invocation leave it as it was.
C2_SubmissionWrittenByEvalOnly ==
    [][ /\ \A i \in Inv :
              pc[i] = "idle" /\ pc'[i] # "idle" =>
                  IF kind'[i] = "eval"
                    THEN previous_code' = code'[i]
                    ELSE previous_code' = previous_code
        /\ (\A i \in Inv : pc[i] = "idle" => pc'[i] = "idle") =>
              previous_code' = previous_code ]_vars

C2_Witness ==
    \E i, j \in Inv :
        /\ kind[i] = "eval" /\ outcome[i] = "SyntaxFailure"
        /\ kind[j] = "retry" /\ Done(j) /\ outcome[j] = "SyntaxFailure"
        /\ previous_code = "bad"

C4_WrappedUnitIsLocated ==
    \A i \in Inv :
        Started(i) /\ WrapperName \in Defines(code[i]) /\ Compiles(code[i]) =>
            "execute" \in stages[i] /\ raised[i] = "none"

\* C5: an invocation whose code does not compile ends at the compile stage:
\* the outcome is SyntaxFailure, neither locate nor execute ran, no reaction
\* was asked for and haste was not called.
C5_SyntaxFailureIsTerminal ==
    \A i \in Inv :
        Started(i) /\ code[i] # None /\ ~Compiles(code[i]) =>
            /\ outcome[i] = "SyntaxFailure"
            /\ Done(i)
            /\ stages[i] = {"compile"}
            /\ marker[i] = <<>> /\ attached[i] = <<>>
            /\ hasteCalls[i] = <<>>
            /\ sent[i] = <<SyntaxBlock>>
            /\ raised[i] = "none"

C5_Witness ==
    \E i \in Inv : Done(i) /\ code[i] = "bad" /\ outcome[i] = "SyntaxFailure"

\* the step in which invocation i starts as a fresh eval and ends in a
\* syntax failure (the whole invocation is this one step)
SyntaxFailingEvalStep(i) ==
    /\ pc[i] = "idle" /\ pc'[i] = "done"
    /\ kind'[i] = "eval"
    /\ outcome'[i] = "SyntaxFailure"

\* C6 as stated: a fresh eval whose code does not compile leaves both
\* last_result and previous_code as they were.
C6_SyntaxFailureMutatesNothing ==
    [][ \A i \in Inv :
            SyntaxFailingEvalStep(i) =>
                last_result' = last_result /\ previous_code' = previous_code ]_vars

\* C6 amended: a fresh eval whose code does not compile leaves last_result as
\* it was and sets previous_code to the submitted text.
C6_SyntaxFailureKeepsResultStoresCode ==
    [][ \A i \in Inv :
            SyntaxFailingEvalStep(i) =>
                last_result' = last_result /\ previous_code' = code'[i] ]_vars

C6_Witness ==
    \E i, j \in Inv :
        /\ i < j
        /\ Done(i) /\ code[i] = "direct" /\ last_result = ret[i] /\ ret[i] = "2"
        /\ Done(j) /\ kind[j] = "eval" /\ outcome[j] = "SyntaxFailure"
        /\ previous_code = "bad"

C8_RetryWithoutPreviousCode ==
    [][ \A i \in Inv :
            (pc[i] = "idle" /\ kind'[i] = "retry" /\ previous_code = None) =>
                /\ pc'[i] = "done"
                /\ sent'[i] = <<NoPreviousCode>>
                /\ outcome'[i] = "none"
                /\ stages'[i] = {}
                /\ marker'[i] = <<>>
                /\ raised'[i] = "none"
                /\ last_result' = last_result
                /\ previous_code' = previous_code ]_vars

C8_Witness ==
    \E i \in Inv :
        /\ kind[i] = "retry" /\ Done(i)
        /\ sent[i] = <<NoPreviousCode>>
        /\ previous_code = None

\* the block a successful invocation builds from its stream and its value
BlockOf(i) == codeblock(Meat(stream[i], ret[i]))

Range(q) == {q[k] : k \in 1..Len(q)}

\* C9: after the size check of a success, if the block is at most 2000 long
\* the block is the one message sent and haste was not called; if it is
\* longer, haste was called once with the unwrapped meat and the block is
\* not sent.
C9_SizeBranch ==
    \A i \in Inv :
        (outcome[i] = "Success" /\ pc[i] \in {"haste", "done"}) =>
            IF MessageLen(BlockOf(i)) <= 2000
              THEN sent[i] = <<BlockOf(i)>> /\ hasteCalls[i] = <<>>
              ELSE /\ hasteCalls[i] = <<Meat(stream[i], ret[i])>>
                   /\ BlockOf(i) \notin Range(sent[i])
                   /\ Len(sent[i]) <= 1

C9_Witness ==
    \E i, j \in Inv :
        /\ Done(i) /\ outcome[i] = "Success"
        /\ MessageLen(BlockOf(i)) = 2000 /\ sent[i] = <<BlockOf(i)>>
        /\ Done(j) /\ outcome[j] = "Success"
        /\ MessageLen(BlockOf(j)) = 2001 /\ Len(hasteCalls[j]) = 1

\* C10: an invocation that called haste ends with exactly one message, the
\* one for what haste gave: the link message for a link, the "huge" notice
\* for a response without a link, the "pastebin_down" notice for a transport
\* failure; the three differ and nothing is raised out of the invocation.
C10_PasteResultMessage ==
    \A i \in Inv :
        (Done(i) /\ hasteCalls[i] # <<>>) =>
            /\ raised[i] = "none"
            /\ Len(sent[i]) = 1
            /\ hasteResult[i] = "link" => sent[i][1].type = "cmd.eval.long"
            /\ hasteResult[i] = "KeyError" => sent[i][1].type = "cmd.eval.huge"
            /\ hasteResult[i] = "ClientError" =>
                  sent[i][1].type = "cmd.eval.pastebin_down"
            /\ hasteResult[i] \in {"link", "KeyError", "ClientError"}

C10_Witness ==
    \E i, j \in Inv :
        /\ Done(i) /\ hasteResult[i] = "KeyError"
        /\ sent[i] = <<[type |-> "cmd.eval.huge"]>>
        /\ Done(j) /\ hasteResult[j] = "ClientError"
        /\ sent[j] = <<[type |-> "cmd.eval.pastebin_down"]>>

\* C11: a reaction that could not be attached changes nothing else.  The
\* step after a failed HIBISCUS still sets last_result to a non-null ret and
\* still sends the block or calls haste; the step after a failed CACTUS still
\* sends the trace block; in both cases nothing is raised out of the
\* invocation.
C11_MarkerFailureIsSwallowed ==
    [][ \A i \in Inv :
          /\ (pc[i] = "react_ok" /\ pc'[i] # "react_ok" /\ attached'[i] = <<>>) =>
                /\ raised'[i] = "none"
                /\ ret[i] # None => last_result' = ret[i]
                /\ ret[i] = None => last_result' = last_result
                /\ \/ pc'[i] = "done" /\ sent'[i] = <<BlockOf(i)>>
                   \/ pc'[i] = "haste" /\ Len(hasteCalls'[i]) = 1
          /\ (pc[i] = "react_fail" /\ pc'[i] # "react_fail" /\ attached'[i] = <<>>) =>
                /\ raised'[i] = "none"
                /\ pc'[i] = "done"
                /\ sent'[i] = <<TraceBlock>> ]_vars

C11_Witness ==
    \E i, j \in Inv :
        /\ Done(i) /\ marker[i] = <<HIBISCUS>> /\ attached[i] = <<>>
        /\ ret[i] = "2" /\ last_result = "2" /\ sent[i] = <<BlockOf(i)>>
        /\ Done(j) /\ marker[j] = <<CACTUS>> /\ attached[j] = <<>>
        /\ sent[j] = <<TraceBlock>>

\* C12: an invocation asks for at most one reaction, and it is the one for
\* how its unit ended: HIBISCUS exactly when the unit returned, CACTUS
\* exactly when it raised; the two reactions differ.
C12_OneMarkerMatchingOutcome ==
    \A i \in Inv :
        /\ Len(marker[i]) <= 1
        /\ unitEnd[i] = "returned" <=> marker[i] = <<HIBISCUS>>
        /\ unitEnd[i] = "raised" <=> marker[i] = <<CACTUS>>
        /\ CACTUS # HIBISCUS
        /\ \A k \in 1..Len(attached[i]) : attached[i][k] = marker[i][k]

C12_Witness ==
    \E i, j \in Inv :
        /\ unitEnd[i] = "returned" /\ marker[i] = <<HIBISCUS>>
        /\ unitEnd[j] = "raised" /\ marker[j] = <<CACTUS>>

EvalsBefore(i) == {j \in Inv : j < i /\ kind[j] = "eval"}

\* the text of the eval that started last, None when no eval has started
LatestSubmission ==
    IF EvalsBefore(MaxInv + 1) = {} THEN None
    ELSE code[MaxOf(EvalsBefore(MaxInv + 1))]

C17_BindingsAreSnapshots ==
    [][ \A i \in Inv :
          /\ (pc[i] = "idle" /\ env'[i] # NoEnv) =>
                env'[i]["_"] = last_result /\ env'[i]["_p"] = previous_code'
          /\ Started(i) => env'[i] = env[i]
          /\ seen'[i] # NoSeen =>
                seen'[i].us = env'[i]["_"] /\ seen'[i].p = env'[i]["_p"] ]_vars

\* A's unit read '_' after B had replaced last_result
C17_Witness ==
    \E i, j \in Inv :
        /\ i # j
        /\ seen[i].us = None /\ seen[i].lr = "2"
        /\ outcome[j] = "Success" /\ ret[j] = "2"
        /\ env[i]["_"] = None /\ last_result = "2"

\* C20: in every eval the '_p' entry of the bindings, and what the unit
\* reads through '_p' in any run, is the text this eval was called with.
C20_PIsOwnSubmission ==
    \A i \in Inv :
        kind[i] = "eval" =>
            /\ env[i] # NoEnv /\ env[i]["_p"] = code[i]
            /\ seen[i] # NoSeen => seen[i].p = code[i]

\* A read '_p' while previous_code already held the text of a later eval
C20_Witness ==
    \E i, j \in Inv :
        /\ i < j /\ kind[i] = "eval" /\ kind[j] = "eval"
        /\ code[j] # code[i]
        /\ seen[i].p = code[i] /\ seen[i].pcode = code[j]

\* the kinds of message an invocation can send
ResultMessageTypes ==
    {"syntax", "trace", "block", "cmd.eval.long", "cmd.eval.huge",
     "cmd.eval.pastebin_down", "No previous code."}

\* C19: an invocation never sends more than one message, and one that has
\* run to its end (no exception left it) has sent exactly one: the syntax
\* block, the trace block, the result block, the link message, the "huge"
\* notice, the "pastebin_down" notice or the "No previous code." notice.
C19_ExactlyOneMessage ==
    \A i \in Inv :
        /\ Len(sent[i]) <= 1
        /\ (Done(i) /\ raised[i] = "none") =>
              Len(sent[i]) = 1 /\ sent[i][1].type \in ResultMessageTypes

C19_Witness ==
    \E i, j \in Inv :
        /\ Done(i) /\ kind[i] = "retry" /\ sent[i] = <<NoPreviousCode>>
        /\ Done(j) /\ kind[j] = "eval" /\ hasteResult[j] = "link"
        /\ Len(sent[j]) = 1 /\ sent[j][1].type = "cmd.eval.long"

\* the converter has been called with stripping on
Converted == converted # NotConverted /\ self.strip_ticks

\* C13: transformed with wrap and implicit return, a text whose last line is
\* neither indented nor begun by a stop word comes out with that line
\* prefixed by the return keyword; an indented or stop-word last line comes
\* out as it was; the lines before the last come out as they were (each line
\* of the unit's body stands behind the wrapper's indentation).
C13_ImplicitReturn ==
    (Converted /\ self.wrap_code /\ self.implicit_return /\ Strip(arg) # <<>>) =>
        /\ converted.raised = "none"
        /\ LET src == SplitLines(Strip(arg))
               unit == SplitLines(converted.result)
               n == Len(src)
               last == src[n]
               indent == Spaces(self.indent_width)
               plain == /\ ~(last # <<>> /\ last[1] = " ")
                        /\ FirstWord(last) \notin IMPLICIT_RETURN_STOP_WORDS
           IN  /\ Len(unit) = n + 1
               /\ \A k \in 1..(n - 1) : unit[k + 1] = indent \o src[k]
               /\ unit[n + 1] =
                      indent \o (IF plain THEN <<"return", " ">> \o last ELSE last)

\* C14: a text that is empty once stripped, transformed with wrap and
\* implicit return, gives a unit (the wrapper header over an empty body):
\* the transform does not fail.
C14_EmptyTextGivesEmptyUnit ==
    (Converted /\ self.wrap_code /\ self.implicit_return /\ Strip(arg) = <<>>) =>
        /\ converted.raised = "none"
        /\ converted.result = Header \o Spaces(self.indent_width)

\* C18: transformed without wrap, a text comes out as the text without its
\* leading and trailing backticks, spaces and newlines, and stripping that
\* result again leaves it as it is.
C18_NoWrapIsStrip ==
    (Converted /\ ~self.wrap_code) =>
        /\ converted.raised = "none"
        /\ converted.result = Strip(arg)
        /\ Strip(converted.result) = converted.result
====
